---- MODULE Spec2Model ----
(***************************************************************************)
(* Model of medical-facility-desert-test.py: the disproportionate-impact   *)
(* analyzer (get_disproportionately_affected_racial_groups) with the        *)
(* callout loop that displays its result, and the session-state mirroring   *)
(* of the page's widgets.                                                   *)
(***************************************************************************)
EXTENDS Integers, Sequences, FiniteSets, TLC

(***************************************************************************)
(* Bounds.                                                                  *)
(***************************************************************************)
\* largest blockgroup count of one racial label in an enumerated aggregate
MaxCount == 8
\* largest number of blockgroups of a table that carry no racial label
MaxUnlabelled == 1

\* racial_labels (src.usa.utils), restricted to three labels
racial_labels == <<"white_alone", "black_alone", "aian_alone">>

\* the least number of desert blockgroups of a flagged label (line 24)
MinDeserts == 5

Labels == {racial_labels[i] : i \in 1..Len(racial_labels)}

(***************************************************************************)
(* Python floats.  A float is an IEEE-754 binary64 number; the values of    *)
(* this program are never negative where they are stored, and are far from  *)
(* the subnormal and overflow ranges.  A positive float is [e, m]: m is its *)
(* 53-bit significand, most significant bit first (m[1] = 1), and its value *)
(* is the sum of m[i] * 2^(e - i + 1).  Zero is [e |-> 0, m |-> <<>>].      *)
(***************************************************************************)
MantissaBits == 53

FloatZero == [e |-> 0, m |-> <<>>]

IsZero(x) == x.m = <<>>

Zeros(k) == [i \in 1..k |-> 0]

\* bits + 1 for a bit string: a bit flips when every bit after it is 1, and
\* the carry out of the top bit, c, is 1 when every bit is 1
Increment(bits) ==
    LET n == Len(bits)
        ones(i) == \A j \in (i + 1)..n : bits[j] = 1
    IN [c    |-> IF ones(0) THEN 1 ELSE 0,
        bits |-> [i \in 1..n |-> IF ones(i) THEN 1 - bits[i] ELSE bits[i]]]

\* bits rounded up to the next significand: all ones round up to a power
\* of two
RoundedUp(e, incremented) ==
    IF incremented.c = 1 THEN [e |-> e + 1, m |-> <<1>> \o Zeros(MantissaBits - 1)]
    ELSE [e |-> e, m |-> incremented.bits]

\* round-to-nearest, ties-to-even: bits is the 53-bit truncated significand
\* with leading exponent e, half is the first discarded bit, sticky says
\* whether anything nonzero was discarded after it
RoundNearestEven(e, bits, half, sticky) ==
    IF half = 1 /\ (sticky \/ bits[MantissaBits] = 1)
    THEN RoundedUp(e, Increment(bits))
    ELSE [e |-> e, m |-> bits]

RECURSIVE Pow2(_)
Pow2(k) == IF k = 0 THEN 1 ELSE 2 * Pow2(k - 1)

\* long division of r by den (0 <= r < den), ChunkBits binary digits at a
\* time: the first n chunks of r/den after the binary point, each a number
\* below 2^ChunkBits, and the remainder left after them
ChunkBits == 13

ChunkBase == Pow2(ChunkBits)

WithChunk(chunk, rest) == [chunks |-> <<chunk>> \o rest.chunks, r |-> rest.r]

RECURSIVE LongDivision(_, _, _)
LongDivision(r, den, n) ==
    IF n = 0 THEN [chunks |-> <<>>, r |-> r]
    ELSE WithChunk((r * ChunkBase) \div den,
                   LongDivision((r * ChunkBase) % den, den, n - 1))

\* the weight of each binary digit of a chunk, most significant first
ChunkWeights == [j \in 1..ChunkBits |-> Pow2(ChunkBits - j)]

\* the i-th binary digit of a sequence of chunks
ChunkBit(chunks, i) ==
    (chunks[((i - 1) \div ChunkBits) + 1]
        \div ChunkWeights[((i - 1) % ChunkBits) + 1]) % 2

\* the largest k with den * 2^k <= num  (num >= den > 0)
RECURSIVE ExponentDown(_, _)
ExponentDown(num, den) == IF 2 * den <= num THEN 1 + ExponentDown(num, 2 * den) ELSE 0

\* the smallest k with num * 2^k >= den  (num > 0)
RECURSIVE ExponentUp(_, _)
ExponentUp(num, den) == IF num >= den THEN 0 ELSE 1 + ExponentUp(2 * num, den)

\* the float of exponent e whose significand is the leading 1 and the digits
\* of the quotient q, rounded by the remainder q.r of the division by den
RoundedQuotient(e, q, den) ==
    RoundNearestEven(e,
                     [i \in 1..MantissaBits |->
                         IF i = 1 THEN 1 ELSE ChunkBit(q.chunks, i - 1)],
                     IF 2 * q.r >= den THEN 1 ELSE 0,
                     q.r # 0 /\ 2 * q.r # den)

\* num / den for num/den in [1, 2), times 2^e: the leading bit is 1, and 52
\* more digits follow
DivideNormal(num, den, e) ==
    RoundedQuotient(e, LongDivision(num - den, den, (MantissaBits - 1) \div ChunkBits), den)

DivideScaled(a, n, up, down) == DivideNormal(a * Pow2(up), n * Pow2(down), down - up)

\* a / n for Python ints a >= 0, n > 0: the correctly rounded quotient
TrueDiv(a, n) ==
    IF a = 0 THEN FloatZero
    ELSE DivideScaled(a, n, ExponentUp(a, n), IF a >= n THEN ExponentDown(a, n) ELSE 0)

\* the order of the bit strings a[lo..hi] and b[lo..hi], most significant
\* bit first: 1 when a is above b, -1 when below, 0 when equal
RECURSIVE BitsCompare(_, _, _, _)
BitsCompare(a, b, lo, hi) ==
    IF lo > hi THEN 0
    ELSE IF a[lo] > b[lo] THEN 1
    ELSE IF a[lo] < b[lo] THEN -1
    ELSE IF lo = hi THEN 0
    ELSE IF BitsCompare(a, b, lo + 1, (lo + hi) \div 2) # 0
    THEN BitsCompare(a, b, lo + 1, (lo + hi) \div 2)
    ELSE BitsCompare(a, b, ((lo + hi) \div 2) + 1, hi)

\* x > y for non-negative floats
FloatGt(x, y) ==
    IF IsZero(x) THEN FALSE
    ELSE IF IsZero(y) THEN TRUE
    ELSE IF x.e # y.e THEN x.e > y.e
    ELSE BitsCompare(x.m, y.m, 1, MantissaBits) = 1

\* 4 * x: scaling by a power of two is exact
FourTimes(x) == IF IsZero(x) THEN x ELSE [x EXCEPT !.e = @ + 2]

\* the digit of b at the first place after i where a and b differ, 0 when
\* they differ nowhere after i
Borrow(a, b, i) ==
    IF \E j \in (i + 1)..Len(a) : a[j] # b[j]
    THEN b[CHOOSE j \in (i + 1)..Len(a) :
               a[j] # b[j] /\ \A k \in (i + 1)..(j - 1) : a[k] = b[k]]
    ELSE 0

\* a - b for bit strings of one length, a >= b, least significant bit last:
\* position i borrows when the first digit after it in which a and b differ
\* is a digit of b
BitsMinus(a, b) == [i \in 1..Len(a) |-> (a[i] - b[i] - Borrow(a, b, i) + 2) % 2]

LeadingZeros(bits) ==
    IF \E i \in 1..Len(bits) : bits[i] = 1
    THEN (CHOOSE i \in 1..Len(bits) : bits[i] = 1 /\ \A j \in 1..(i - 1) : bits[j] = 0) - 1
    ELSE Len(bits)

\* the float of leading exponent lead and significant digits sig, rounded
RoundedSignificand(lead, sig) ==
    IF Len(sig) <= MantissaBits
    THEN [e |-> lead, m |-> sig \o Zeros(MantissaBits - Len(sig))]
    ELSE RoundNearestEven(lead, SubSeq(sig, 1, MantissaBits),
                          sig[MantissaBits + 1],
                          \E i \in (MantissaBits + 2)..Len(sig) : sig[i] = 1)

WithoutLeadingZeros(e, exact, z) ==
    RoundedSignificand(e - z, SubSeq(exact, z + 1, Len(exact)))

Normalized(e, exact) == WithoutLeadingZeros(e, exact, LeadingZeros(exact))

\* the digits of x shifted left by k places, minus the digits of y
AlignedDifference(x, y, k) == BitsMinus(x.m \o Zeros(k), Zeros(k) \o y.m)

\* x - y for floats x > y >= 0: the exact difference, rounded
FloatMinus(x, y) ==
    IF IsZero(y) THEN x
    ELSE Normalized(x.e, AlignedDifference(x, y, x.e - y.e))

\* the literal 0.1: the float nearest to one tenth
PointOne == TrueDiv(1, 10)

\* x - y > 0.1 for non-negative floats; a difference that is not positive is
\* below 0.1 whatever its magnitude
DifferenceOverPointOne(x, y) ==
    IF FloatGt(x, y) THEN FloatGt(FloatMinus(x, y), PointOne) ELSE FALSE

(***************************************************************************)
(* Python dicts.  A dict is [keys, count]: keys is the sequence of its keys *)
(* in iteration order and count maps each key to its value.                 *)
(***************************************************************************)
EmptyDict == [keys |-> <<>>, count |-> <<>>]

KeySet(dict) == {dict.keys[i] : i \in 1..Len(dict.keys)}

RECURSIVE SumValues(_, _)
SumValues(dict, i) ==
    IF i > Len(dict.keys) THEN 0
    ELSE dict.count[dict.keys[i]] + SumValues(dict, i + 1)

\* sum(dict.values())
sum(dict) == SumValues(dict, 1)

\* the orders in which a dict can hold some of the labels of S
KeyOrders(S) ==
    {order \in UNION {[1..n -> S] : n \in 0..Cardinality(S)} :
        \A i, j \in 1..Len(order) : order[i] = order[j] => i = j}

\* the key orders that follow the order of racial_labels
Canonical(orders) ==
    {order \in orders :
        \A i, j \in 1..Len(order) :
            i < j => \E a, b \in 1..Len(racial_labels) :
                        a < b /\ racial_labels[a] = order[i] /\ racial_labels[b] = order[j]}

DictsOver(orders, counts) ==
    UNION {{[keys |-> order, count |-> c] :
              c \in [{order[i] : i \in 1..Len(order)} -> counts]} :
           order \in orders}

\* Aggregates over two labels with every count up to MaxCount.  The code
\* never iterates the deserts aggregate, so one key order (that of
\* racial_labels) stands for all of its orders.
TwoLabels == {"white_alone", "black_alone"}

FineInputs ==
    DictsOver(KeyOrders(TwoLabels), 0..MaxCount)
        \X DictsOver(Canonical(KeyOrders(TwoLabels)), 0..MaxCount)

\* Aggregates over all the labels, in every key order, with counts at the
\* ends of their ranges: several labels can be flagged at once.
CoarseInputs ==
    DictsOver(KeyOrders(Labels), {0, MaxCount})
        \X DictsOver(Canonical(KeyOrders(Labels)), {0, MinDeserts})

\* the aggregates of a state with 100 blockgroups of which 10 are deserts
ScenarioAll ==
    [keys |-> <<"white_alone", "black_alone">>,
     count |-> [l \in {"white_alone", "black_alone"} |->
                  IF l = "white_alone" THEN 80 ELSE 20]]

ScenarioDeserts ==
    [keys |-> <<"white_alone", "black_alone">>,
     count |-> [l \in {"white_alone", "black_alone"} |->
                  IF l = "white_alone" THEN 2 ELSE 8]]

\* a state with 100 blockgroups, 70 of them majority white, and 10 deserts,
\* 8 of them majority white: shares of 0.7 and 0.8, ten points apart
TenPointsAll ==
    [keys |-> <<"white_alone", "black_alone">>,
     count |-> [l \in {"white_alone", "black_alone"} |->
                  IF l = "white_alone" THEN 70 ELSE 30]]

TenPointsDeserts ==
    [keys |-> <<"white_alone", "black_alone">>,
     count |-> [l \in {"white_alone", "black_alone"} |->
                  IF l = "white_alone" THEN 8 ELSE 2]]

AnalyzerInputs ==
    FineInputs \cup CoarseInputs
        \cup {<<ScenarioAll, ScenarioDeserts>>, <<TenPointsAll, TenPointsDeserts>>}

(***************************************************************************)
(* The page's selections (lines 58-150).  A value that may be missing - a   *)
(* key of st.session_state, a widget's state, a local not yet assigned - is  *)
(* Absent or Some(v).                                                        *)
(***************************************************************************)
Absent == [present |-> FALSE]

Some(v) == [present |-> TRUE, value |-> v]

\* last day of the year the session lasts to
MaxDay == 2

\* facilities (line 58): three of the descriptors of src.usa.facilities, two
\* of them of one type
facilities ==
    << [display_name |-> "Pharmacy chains", type |-> "pharmacy"],
       [display_name |-> "Urgent care centers", type |-> "medical"],
       [display_name |-> "Hospitals", type |-> "medical"] >>

\* line 59
facility_display_names == [i \in 1..Len(facilities) |-> facilities[i].display_name]

\* state_names and interesting_states (src.usa.constants), three states
state_names == <<"Alabama", "Georgia", "Texas">>

interesting_states == <<"Georgia", "Texas">>

\* a facility name and a state name that are in neither list
StaleFacilityName == "Dialysis centers"

StaleStateName == "Puerto Rico"

\* the defaults imported from src.constants (line 8), in percent and in
\* miles: values inside the range of their sliders
DEFAULT_POVERTY_THRESHOLD == 20

DEFAULT_URBAN_DISTANCE_THRESHOLD == 2

DEFAULT_RURAL_DISTANCE_THRESHOLD == 10

\* max_value of the sliders (lines 112, 129, 138)
MaxPovertyThreshold == 100

MaxUrbanDistanceThreshold == 15

MaxRuralDistanceThreshold == 30

\* the five keys of st.session_state that mirror a widget; the widget of key
\* k has the key k_new and is named k below
MirroredKeys ==
    {"facility_display_name", "state_name", "poverty_threshold",
     "urban_distance_threshold", "rural_distance_threshold"}

\* the three toggles (lines 148-150), which have neither key nor callback
Toggles == {"show_deserts", "show_facility_locations", "show_voronoi_cells"}

Widgets == MirroredKeys \cup Toggles

Elements(seq) == {seq[i] : i \in 1..Len(seq)}

\* the values the user can give each widget
Options(w) ==
    CASE w = "facility_display_name"    -> Elements(facility_display_names)
      [] w = "state_name"               -> Elements(state_names)
      [] w = "poverty_threshold"        -> {DEFAULT_POVERTY_THRESHOLD, MaxPovertyThreshold}
      [] w = "urban_distance_threshold" -> {DEFAULT_URBAN_DISTANCE_THRESHOLD,
                                            MaxUrbanDistanceThreshold}
      [] w = "rural_distance_threshold" -> {DEFAULT_RURAL_DISTANCE_THRESHOLD,
                                            MaxRuralDistanceThreshold}
      [] OTHER                          -> BOOLEAN

VARIABLES
    session_state,    \* st.session_state on the mirrored keys
    widget_state,     \* the state the framework holds for each widget
    widget_identity,  \* what the framework identifies a keyed widget by
    locals,           \* the values the widgets returned in the latest run
    defaults,         \* the index or value each mirrored widget was given
    day_of_year,      \* day_of_year of the latest run (line 53)
    chosen,           \* the value the user last gave each mirrored widget
    ui                \* "start", "rendered", "raised", or "other_page"

uivars == <<session_state, widget_state, widget_identity, locals, defaults,
            day_of_year, chosen, ui>>

\* list.index(x): the position of x, 0 standing for ValueError
Index(list, x) ==
    IF x \in Elements(list) THEN CHOOSE i \in 1..Len(list) : list[i] = x /\ \A j \in 1..(i - 1) : list[j] # x
    ELSE 0

\* lines 46-49; the function returns None when no facility has the name
get_facility_from_facility_name(list, facility_name) ==
    IF \E i \in 1..Len(list) : list[i].display_name = facility_name
    THEN Some(list[CHOOSE i \in 1..Len(list) :
                     /\ list[i].display_name = facility_name
                     /\ \A j \in 1..(i - 1) : list[j].display_name # facility_name])
    ELSE Absent

\* lines 52-55, on the day of the year day
state_of_the_day(names, day) == names[(day % Len(names)) + 1]

\* the change callbacks (lines 64-65, 76-77, 104-105, 116-120)
update_facility_display_name(ss, ws) ==
    [ss EXCEPT !["facility_display_name"] = Some(ws["facility_display_name"].value)]

update_state_name(ss, ws) ==
    [ss EXCEPT !["state_name"] = Some(ws["state_name"].value)]

\* update_poverty_threshold copying the persisted key onto itself
update_poverty_threshold_from_itself(ss, ws) ==
    [ss EXCEPT !["poverty_threshold"] = ss["poverty_threshold"]]

update_poverty_threshold(ss, ws) ==
    [ss EXCEPT !["poverty_threshold"] = Some(ws["poverty_threshold"].value)]

\* update_urban_distance_threshold writing the key of the rural threshold
update_urban_distance_threshold_to_rural(ss, ws) ==
    [ss EXCEPT !["rural_distance_threshold"] = Some(ws["urban_distance_threshold"].value)]

update_urban_distance_threshold(ss, ws) ==
    [ss EXCEPT !["urban_distance_threshold"] = Some(ws["urban_distance_threshold"].value)]

update_rural_distance_threshold(ss, ws) ==
    [ss EXCEPT !["rural_distance_threshold"] = Some(ws["rural_distance_threshold"].value)]

\* on_change of the widget w
OnChange(w, ss, ws) ==
    CASE w = "facility_display_name"    -> update_facility_display_name(ss, ws)
      [] w = "state_name"               -> update_state_name(ss, ws)
      [] w = "poverty_threshold"        -> update_poverty_threshold(ss, ws)
      [] w = "urban_distance_threshold" -> update_urban_distance_threshold(ss, ws)
      [] w = "rural_distance_threshold" -> update_rural_distance_threshold(ss, ws)
      [] OTHER                          -> ss

\* lines 67-71: the name whose index the facility selectbox is given
FacilityDefault(ss) ==
    IF ss["facility_display_name"].present
    THEN ss["facility_display_name"].value
    ELSE facility_display_names[1]

\* lines 79-81 with the day of the year ignoring the persisted state
StateDefaultOfTheDay(ss, day) == state_of_the_day(interesting_states, day)

\* lines 79-81: the name whose index the state selectbox is given
StateDefault(ss, day) ==
    IF ss["state_name"].present
    THEN ss["state_name"].value
    ELSE state_of_the_day(interesting_states, day)

\* lines 108-111, 125-128, 134-137: the value a slider is given
SliderDefault(ss, k) ==
    IF ss[k].present THEN ss[k].value
    ELSE CASE k = "poverty_threshold"        -> DEFAULT_POVERTY_THRESHOLD
           [] k = "urban_distance_threshold" -> DEFAULT_URBAN_DISTANCE_THRESHOLD
           [] k = "rural_distance_threshold" -> DEFAULT_RURAL_DISTANCE_THRESHOLD

\* value= of the toggles (lines 148-150)
ToggleDefault(t) == t = "show_deserts"

\* What a widget returns in a run.  A widget without a key is identified by
\* its parameters; a widget with a key by its parameters too, or by its key
\* alone, depending on the framework.  A widget that is new under its
\* identity returns the default it is given; one that is not returns the
\* state the framework holds for it.
WidgetValue(ws, identify_by, w, default, parameters) ==
    IF /\ ws[w].present
       /\ \/ ws[w].parameters = parameters
          \/ (w \in MirroredKeys /\ identify_by = "key")
    THEN ws[w].value
    ELSE default

WidgetAfter(value, parameters) ==
    [present |-> TRUE, value |-> value, parameters |-> parameters]

NoLocals == [w \in Widgets |-> Absent]

\* the run once the two selectboxes were given the defaults facility_default
\* and state_default and the first returned the facility
RunWidgets(ss, ws, identify_by, facility_default, state_default, facility) ==
    LET \* the help of a slider and the labels of two toggles hold the type
        \* or the name of the facility
        parameters(w) ==
            CASE w = "facility_display_name"   -> <<facility_default>>
              [] w = "state_name"              -> <<state_default>>
              [] w = "show_deserts"            -> <<facility.type>>
              [] w = "show_facility_locations" -> <<facility.display_name>>
              [] w = "show_voronoi_cells"      -> <<>>
              [] OTHER                         -> <<SliderDefault(ss, w), facility.type>>
        default(w) ==
            CASE w = "facility_display_name" -> facility_default
              [] w = "state_name"            -> state_default
              [] w \in Toggles               -> ToggleDefault(w)
              [] OTHER                       -> SliderDefault(ss, w)
    IN [w \in Widgets |->
          [default    |-> default(w),
           parameters |-> parameters(w),
           value      |-> WidgetValue(ws, identify_by, w, default(w), parameters(w))]]

RunResult(run) ==
    [exception |-> "None",
     locals    |-> [w \in Widgets |-> Some(run[w].value)],
     defaults  |-> [k \in MirroredKeys |-> Some(run[k].default)],
     widgets   |-> [w \in Widgets |-> WidgetAfter(run[w].value, run[w].parameters)]]

RunFrom(ss, ws, identify_by, facility_default, state_default, facility) ==
    IF Index(facility_display_names, facility_default) = 0
    THEN [exception |-> "ValueError"]
    ELSE IF Index(state_names, state_default) = 0
    THEN [exception |-> "ValueError"]
    ELSE IF ~facility.present
    THEN [exception |-> "AttributeError"]
    ELSE RunResult(RunWidgets(ss, ws, identify_by, facility_default, state_default,
                              facility.value))

\* One run of the script (lines 58-150) on the session state ss and the
\* widget states ws: the exception it raises, or the values its widgets
\* return, the defaults they were given, and the widget states it leaves.
Run(ss, ws, identify_by, day) ==
    RunFrom(ss, ws, identify_by, FacilityDefault(ss), StateDefault(ss, day),
            get_facility_from_facility_name(facilities,
                WidgetValue(ws, identify_by, "facility_display_name",
                            FacilityDefault(ss), <<FacilityDefault(ss)>>)))

(***************************************************************************)
(* State of one evaluation of the right column (lines 206-229).            *)
(***************************************************************************)
VARIABLES
    demographics_all,      \* get_demographic_data(census_df, racial_labels)
    demographics_deserts,  \* get_demographic_data(desert_df, racial_labels)
    len_census_df,         \* len(census_df)
    len_desert_df,         \* len(desert_df)
    disproportionately_affected_racial_groups,  \* the analyzer's result
    callouts,              \* the fractions displayed, one record per callout box
    pc,                    \* "start", "analyzed", "displayed", or "raised_in_analyzer",
                           \* "raised_in_callout"
    exception              \* the exception that ended the latest run, or "None"

avars == <<demographics_all, demographics_deserts, len_census_df, len_desert_df,
           disproportionately_affected_racial_groups, callouts, pc>>

vars == <<session_state, widget_state, widget_identity, locals, defaults,
          day_of_year, chosen, ui,
          demographics_all, demographics_deserts, len_census_df, len_desert_df,
          disproportionately_affected_racial_groups, callouts, pc, exception>>

(***************************************************************************)
(* get_disproportionately_affected_racial_groups (lines 22-43).            *)
(***************************************************************************)
\* is_disproportionately_affected without its test of the number of deserts
is_disproportionately_affected_any_count(fraction_all, fraction_deserts, n_deserts) ==
    \/ FloatGt(fraction_deserts, FourTimes(fraction_all))
    \/ DifferenceOverPointOne(fraction_deserts, fraction_all)

is_disproportionately_affected(fraction_all, fraction_deserts, n_deserts) ==
    LET more_than_five_deserts      == n_deserts >= MinDeserts
        four_times_more_deserts     == FloatGt(fraction_deserts, FourTimes(fraction_all))
        over_ten_percent_difference == DifferenceOverPointOne(fraction_deserts, fraction_all)
    IN more_than_five_deserts /\ (four_times_more_deserts \/ over_ten_percent_difference)

\* the loop with the two divisions ahead of the test of line 37
RECURSIVE AnalyzerLoopDividingFirst(_, _, _, _)
AnalyzerLoopDividingFirst(all, deserts, i, groups) ==
    IF i > Len(all.keys) THEN [exception |-> "None", value |-> groups]
    ELSE LET racial_label == all.keys[i] IN
         IF sum(all) = 0 \/ sum(deserts) = 0
         THEN [exception |-> "ZeroDivisionError", value |-> <<>>]
         ELSE IF /\ racial_label \in KeySet(deserts)
                 /\ is_disproportionately_affected(
                        TrueDiv(all.count[racial_label], sum(all)),
                        TrueDiv(deserts.count[racial_label], sum(deserts)),
                        deserts.count[racial_label])
              THEN AnalyzerLoopDividingFirst(all, deserts, i + 1,
                                             Append(groups, racial_label))
              ELSE AnalyzerLoopDividingFirst(all, deserts, i + 1, groups)

\* the loop with each flagged label put at the head of the list
RECURSIVE AnalyzerLoopPrepending(_, _, _, _)
AnalyzerLoopPrepending(all, deserts, i, groups) ==
    IF i > Len(all.keys) THEN [exception |-> "None", value |-> groups]
    ELSE LET racial_label == all.keys[i] IN
         IF racial_label \in KeySet(deserts)
         THEN IF sum(all) = 0 \/ sum(deserts) = 0
              THEN [exception |-> "ZeroDivisionError", value |-> <<>>]
              ELSE IF is_disproportionately_affected(
                         TrueDiv(all.count[racial_label], sum(all)),
                         TrueDiv(deserts.count[racial_label], sum(deserts)),
                         deserts.count[racial_label])
                   THEN AnalyzerLoopPrepending(all, deserts, i + 1,
                                               <<racial_label>> \o groups)
                   ELSE AnalyzerLoopPrepending(all, deserts, i + 1, groups)
         ELSE AnalyzerLoopPrepending(all, deserts, i + 1, groups)

\* the for loop of lines 36-41 from the i-th key of all on, groups being the
\* list built so far; a division by zero ends the call with the exception
RECURSIVE AnalyzerLoop(_, _, _, _)
AnalyzerLoop(all, deserts, i, groups) ==
    IF i > Len(all.keys) THEN [exception |-> "None", value |-> groups]
    ELSE LET racial_label  == all.keys[i]
             n_blockgroups == sum(all)
             n_deserts     == sum(deserts)
         IN IF racial_label \in KeySet(deserts)
            THEN IF n_blockgroups = 0 \/ n_deserts = 0
                 THEN [exception |-> "ZeroDivisionError", value |-> <<>>]
                 ELSE LET fraction_all     == TrueDiv(all.count[racial_label], n_blockgroups)
                          fraction_deserts == TrueDiv(deserts.count[racial_label], n_deserts)
                      IN IF is_disproportionately_affected(fraction_all, fraction_deserts,
                                                           deserts.count[racial_label])
                         THEN AnalyzerLoop(all, deserts, i + 1, Append(groups, racial_label))
                         ELSE AnalyzerLoop(all, deserts, i + 1, groups)
            ELSE AnalyzerLoop(all, deserts, i + 1, groups)

get_disproportionately_affected_racial_groups(all, deserts) ==
    AnalyzerLoop(all, deserts, 1, <<>>)

(***************************************************************************)
(* The callout loop (lines 218-229).                                       *)
(***************************************************************************)
\* legend_labels (lines 196-204) has an entry for every racial label
legend_labels == Labels

\* the loop of lines 219-229 from the i-th flagged label on; shown is the
\* list of fractions displayed so far
RECURSIVE CalloutLoop(_, _, _, _, _, _)
CalloutLoop(groups, all, deserts, n_blockgroups, n_desert_rows, i) ==
    IF i > Len(groups) THEN [exception |-> "None", value |-> <<>>]
    ELSE LET racial_label == groups[i] IN
         IF racial_label \notin KeySet(all) THEN [exception |-> "KeyError", value |-> <<>>]
         ELSE IF n_blockgroups = 0 THEN [exception |-> "ZeroDivisionError", value |-> <<>>]
         ELSE IF racial_label \notin KeySet(deserts) THEN [exception |-> "KeyError", value |-> <<>>]
         ELSE IF n_desert_rows = 0 THEN [exception |-> "ZeroDivisionError", value |-> <<>>]
         ELSE IF racial_label \notin legend_labels THEN [exception |-> "KeyError", value |-> <<>>]
         ELSE LET rest == CalloutLoop(groups, all, deserts, n_blockgroups, n_desert_rows, i + 1)
                  box  == [racial_label     |-> racial_label,
                           fraction_all     |-> TrueDiv(all.count[racial_label], n_blockgroups),
                           fraction_deserts |-> TrueDiv(deserts.count[racial_label], n_desert_rows)]
              IN IF rest.exception = "None"
                 THEN [exception |-> "None", value |-> <<box>> \o rest.value]
                 ELSE rest

(***************************************************************************)
(* Actions of the right column.                                            *)
(***************************************************************************)
\* the selections before the first run of a session
NewSession ==
    /\ session_state = [k \in MirroredKeys |-> Absent]
    /\ widget_state = [w \in Widgets |-> Absent]
    /\ locals = NoLocals
    /\ defaults = [k \in MirroredKeys |-> Absent]
    /\ chosen = [k \in MirroredKeys |-> Absent]
    /\ ui = "start"
    /\ exception = "None"

\* the right column before it is evaluated
NoTables ==
    /\ len_census_df = 0
    /\ len_desert_df = 0
    /\ disproportionately_affected_racial_groups = <<>>
    /\ callouts = <<>>
    /\ pc = "start"

AnalyzerInit ==
    /\ \E input \in AnalyzerInputs :
          /\ demographics_all = input[1]
          /\ demographics_deserts = input[2]
    /\ NoTables
    /\ NewSession
    /\ widget_identity = "parameters"
    /\ day_of_year = 1

\* line 218
Analyze ==
    /\ pc = "start"
    /\ LET r == get_disproportionately_affected_racial_groups(demographics_all,
                                                              demographics_deserts)
       IN /\ disproportionately_affected_racial_groups' = r.value
          /\ exception' = r.exception
          /\ pc' = IF r.exception = "None" THEN "analyzed" ELSE "raised_in_analyzer"
    /\ UNCHANGED <<demographics_all, demographics_deserts, len_census_df,
                   len_desert_df, callouts>>
    /\ UNCHANGED uivars

\* lines 207 and 219-229; the tables may hold blockgroups that carry none of
\* the racial labels, and the desert table is a part of the census table
Callout ==
    /\ pc = "analyzed"
    /\ \E unlabelled \in 0..MaxUnlabelled : \E unlabelled_deserts \in 0..unlabelled :
          /\ len_census_df' = sum(demographics_all) + unlabelled
          /\ len_desert_df' = sum(demographics_deserts) + unlabelled_deserts
          /\ LET r == CalloutLoop(disproportionately_affected_racial_groups,
                                  demographics_all, demographics_deserts,
                                  len_census_df', len_desert_df', 1)
             IN /\ callouts' = r.value
                /\ exception' = r.exception
                /\ pc' = IF r.exception = "None" THEN "displayed" ELSE "raised_in_callout"
    /\ UNCHANGED <<demographics_all, demographics_deserts,
                   disproportionately_affected_racial_groups>>
    /\ UNCHANGED uivars

AnalyzerNext == Analyze \/ Callout

SpecAnalyzer == AnalyzerInit /\ [][AnalyzerNext]_vars

(***************************************************************************)
(* Actions of the session: each is one event of the framework followed by   *)
(* the run of the script it causes.                                         *)
(***************************************************************************)
\* the outcome r of a run on the session state ss and the widget states ws
AfterRun(r, ss, ws) ==
    /\ session_state' = ss
    /\ exception' = r.exception
    /\ IF r.exception = "None"
       THEN /\ ui' = "rendered"
            /\ locals' = r.locals
            /\ defaults' = r.defaults
            /\ widget_state' = r.widgets
       ELSE /\ ui' = "raised"
            /\ widget_state' = ws
            /\ UNCHANGED <<locals, defaults>>

\* the script runs on the session state ss and the widget states ws, on a
\* day that is not before that of the run before
RunScript(ss, ws) ==
    \E day \in day_of_year..MaxDay :
        /\ day_of_year' = day
        /\ AfterRun(Run(ss, ws, widget_identity, day), ss, ws)

Init ==
    /\ NewSession
    /\ widget_identity \in {"parameters", "key"}
    /\ day_of_year = 1
    /\ demographics_all = EmptyDict
    /\ demographics_deserts = EmptyDict
    /\ NoTables

\* the first run of the session
FirstRun ==
    /\ ui = "start"
    /\ RunScript(session_state, widget_state)
    /\ UNCHANGED <<widget_identity, chosen>>
    /\ UNCHANGED avars

\* the script runs again with no widget changed
Rerun ==
    /\ ui = "rendered"
    /\ RunScript(session_state, widget_state)
    /\ UNCHANGED <<widget_identity, chosen>>
    /\ UNCHANGED avars

\* the user gives the widget of the mirrored key w the value v: the
\* framework stores v as the widget's state, calls on_change, and runs the
\* script
ChangeWidget(w, v) ==
    /\ ui = "rendered"
    /\ v # locals[w].value
    /\ LET ws == [widget_state EXCEPT ![w].value = v] IN
       RunScript(OnChange(w, session_state, ws), ws)
    /\ chosen' = [chosen EXCEPT ![w] = Some(v)]
    /\ UNCHANGED widget_identity
    /\ UNCHANGED avars

Change == \E w \in MirroredKeys : \E v \in Options(w) : ChangeWidget(w, v)

\* the user flips the toggle t: the framework stores the new value and runs
\* the script
FlipToggle(t) ==
    /\ ui = "rendered"
    /\ RunScript(session_state, [widget_state EXCEPT ![t].value = ~locals[t].value])
    /\ UNCHANGED <<widget_identity, chosen>>
    /\ UNCHANGED avars

Toggle == \E t \in Toggles : FlipToggle(t)

\* the user presses one of the two buttons (lines 257-264): the script runs
\* and switches to another page, whose run leaves no state for the widgets of
\* this page
AfterSwitch(r) ==
    /\ exception' = r.exception
    /\ IF r.exception = "None"
       THEN /\ ui' = "other_page"
            /\ locals' = r.locals
            /\ defaults' = r.defaults
            /\ widget_state' = [w \in Widgets |-> Absent]
       ELSE /\ ui' = "raised"
            /\ UNCHANGED <<locals, defaults, widget_state>>

SwitchPage ==
    /\ ui = "rendered"
    /\ \E day \in day_of_year..MaxDay :
          /\ day_of_year' = day
          /\ AfterSwitch(Run(session_state, widget_state, widget_identity, day))
    /\ UNCHANGED <<session_state, widget_identity, chosen>>
    /\ UNCHANGED avars

\* the user comes back from the other page
ReturnToPage ==
    /\ ui = "other_page"
    /\ RunScript(session_state, widget_state)
    /\ UNCHANGED <<widget_identity, chosen>>
    /\ UNCHANGED avars

Next == FirstRun \/ Rerun \/ Change \/ Toggle \/ SwitchPage \/ ReturnToPage

Spec == Init /\ [][Next]_vars

\* A session whose store was written before this page first runs, by the
\* other pages of the application or by a deployment with other lists of
\* facilities and states: the facility and the state it holds may be in the
\* lists of this page or not.
StoredValues(k) ==
    CASE k = "facility_display_name" -> {facility_display_names[Len(facility_display_names)],
                                         StaleFacilityName}
      [] k = "state_name"            -> {state_names[1], StaleStateName}
      [] OTHER                       -> {}

Stored(k) == {Absent} \cup {Some(v) : v \in StoredValues(k)}

InitStored ==
    /\ \E facility_name \in Stored("facility_display_name") :
       \E state_name \in Stored("state_name") :
          session_state =
             [k \in MirroredKeys |->
                CASE k = "facility_display_name" -> facility_name
                  [] k = "state_name"            -> state_name
                  [] OTHER                       -> Absent]
    /\ widget_state = [w \in Widgets |-> Absent]
    /\ locals = NoLocals
    /\ defaults = [k \in MirroredKeys |-> Absent]
    /\ chosen = [k \in MirroredKeys |-> Absent]
    /\ ui = "start"
    /\ exception = "None"
    /\ widget_identity \in {"parameters", "key"}
    /\ day_of_year = 1
    /\ demographics_all = EmptyDict
    /\ demographics_deserts = EmptyDict
    /\ NoTables

SpecStored == InitStored /\ [][Next]_vars

(***************************************************************************)
(* Properties of the analyzer and of the callout loop.                     *)
(***************************************************************************)
\* the analyzer has returned its list
AnalyzerReturned == pc \in {"analyzed", "displayed", "raised_in_callout"}

\* the analyzer has returned or raised
AnalyzerDone == pc # "start"

Flagged == {disproportionately_affected_racial_groups[i] :
              i \in 1..Len(disproportionately_affected_racial_groups)}

\* the rule of the analyzer over the exact ratios count/total
ExactlyFlagged(all, deserts, l) ==
    /\ l \in KeySet(all) \cap KeySet(deserts)
    /\ deserts.count[l] >= 5
    /\ LET a == all.count[l]
           n == sum(all)
           d == deserts.count[l]
           m == sum(deserts)
       IN \/ d * n > 4 * a * m
          \/ 10 * (d * n - a * m) > n * m

\* C1: with both totals positive, the analyzer returns the labels that are
\* keys of both aggregates, have at least 5 deserts, and whose exact share of
\* the deserts is more than 4 times, or more than 0.1 above, their exact share
\* of all blockgroups; the scenario 80/20 against 2/8 gives [black_alone].
C1_FlagsByExactRatios ==
    (AnalyzerDone /\ sum(demographics_all) > 0 /\ sum(demographics_deserts) > 0)
        => /\ AnalyzerReturned
           /\ \A l \in Labels :
                 l \in Flagged <=> ExactlyFlagged(demographics_all, demographics_deserts, l)
           /\ (demographics_all = ScenarioAll /\ demographics_deserts = ScenarioDeserts)
                 => disproportionately_affected_racial_groups = <<"black_alone">>

\* s is a subsequence of t
IsSubsequence(s, t) ==
    \E f \in [1..Len(s) -> 1..Len(t)] :
        /\ \A i \in 1..Len(s) : s[i] = t[f[i]]
        /\ \A i, j \in 1..Len(s) : i < j => f[i] < f[j]

\* C2: whenever the analyzer returns, its result has no duplicates, is a
\* subsequence of the key order of demographics_all, and holds only labels
\* that are keys of both aggregates.
C2_ResultFollowsKeyOrder ==
    AnalyzerReturned
        => LET groups == disproportionately_affected_racial_groups IN
           /\ \A i, j \in 1..Len(groups) : groups[i] = groups[j] => i = j
           /\ IsSubsequence(groups, demographics_all.keys)
           /\ Flagged \subseteq KeySet(demographics_all) \cap KeySet(demographics_deserts)

\* two labels are flagged, in an order that is not that of racial_labels, and
\* a key of demographics_all that demographics_deserts lacks was skipped
C2_Witness ==
    /\ AnalyzerReturned
    /\ disproportionately_affected_racial_groups = <<"aian_alone", "black_alone">>
    /\ KeySet(demographics_all) \ KeySet(demographics_deserts) # {}

\* C3: if every count of demographics_deserts is below 5, zeros included, and
\* its keys are keys of demographics_all, the analyzer returns an empty list.
C3_EmptyBelowFiveDeserts ==
    ( /\ AnalyzerDone
      /\ KeySet(demographics_deserts) \subseteq KeySet(demographics_all)
      /\ \A l \in KeySet(demographics_deserts) : demographics_deserts.count[l] < 5 )
        => AnalyzerReturned /\ disproportionately_affected_racial_groups = <<>>

\* C4: when the counts of either aggregate sum to zero, the analyzer returns
\* an empty list and raises nothing.
C4_ZeroTotalsGuarded ==
    (AnalyzerDone /\ (sum(demographics_all) = 0 \/ sum(demographics_deserts) = 0))
        => AnalyzerReturned /\ disproportionately_affected_racial_groups = <<>>

\* C5: when demographics_deserts has no keys, the analyzer raises nothing and
\* returns an empty list, whatever demographics_all is.
C5_NoDesertKeys ==
    (AnalyzerDone /\ demographics_deserts.keys = <<>>)
        => AnalyzerReturned /\ disproportionately_affected_racial_groups = <<>>

\* the analyzer has returned on an empty deserts aggregate and an aggregate
\* of all blockgroups that has keys and a positive total
C5_Witness ==
    /\ pc = "analyzed"
    /\ demographics_deserts = EmptyDict
    /\ sum(demographics_all) > 0

\* the counts of each aggregate sum to the length of its table
DataModelInvariant ==
    /\ len_census_df = sum(demographics_all)
    /\ len_desert_df = sum(demographics_deserts)

CalloutDone == pc \in {"displayed", "raised_in_callout"}

\* C10: when the counts of each aggregate sum to the length of its table, the
\* callout loop raises nothing: every flagged label is a key of both
\* aggregates, len(census_df) > 0 and len(desert_df) >= 5 where it divides,
\* and the fractions it displays are those the analyzer compared.
C10_CalloutsNeverFault ==
    (CalloutDone /\ DataModelInvariant)
        => /\ pc = "displayed"
           /\ Len(callouts) = Len(disproportionately_affected_racial_groups)
           /\ \A i \in 1..Len(callouts) :
                 LET l == disproportionately_affected_racial_groups[i] IN
                 /\ l \in KeySet(demographics_all) \cap KeySet(demographics_deserts)
                 /\ len_census_df > 0
                 /\ len_desert_df >= 5
                 /\ callouts[i].racial_label = l
                 /\ callouts[i].fraction_all
                       = TrueDiv(demographics_all.count[l], sum(demographics_all))
                 /\ callouts[i].fraction_deserts
                       = TrueDiv(demographics_deserts.count[l], sum(demographics_deserts))

\* two callouts were displayed for tables without unlabelled blockgroups
C10_Witness ==
    /\ pc = "displayed"
    /\ DataModelInvariant
    /\ Len(callouts) = 2

(***************************************************************************)
(* Properties of the session.                                              *)
(***************************************************************************)
\* C6: once the user has changed the widget of a mirrored key, the persisted
\* key holds the new value, and every run from the one the change caused on
\* gives the widget that value and gets it back from the widget, whatever
\* else has been changed since, until the widget is changed again.
C6_ChangedValueIsUsed ==
    \A k \in MirroredKeys :
        chosen[k].present
            => /\ session_state[k] = chosen[k]
               /\ ui = "rendered" => (defaults[k] = chosen[k] /\ locals[k] = chosen[k])

\* the facility and the state have both been changed, one after the other,
\* a toggle was flipped after that, and the run uses both new values
C6_Witness ==
    /\ ui = "rendered"
    /\ chosen["facility_display_name"] = Some("Hospitals")
    /\ chosen["state_name"] = Some("Alabama")
    /\ locals["facility_display_name"] = Some("Hospitals")
    /\ locals["state_name"] = Some("Alabama")
    /\ ~locals["show_deserts"].value = ToggleDefault("show_deserts")

\* C7: a persisted facility or state that is missing or not in its list is
\* replaced by a valid default, and the run raises nothing.
C7_InvalidSelectionIsReset ==
    /\ ui # "raised"
    /\ ui = "rendered"
          => /\ locals["facility_display_name"].value \in Elements(facility_display_names)
             /\ locals["state_name"].value \in Elements(state_names)

\* the default of a mirrored key when nothing is persisted under it
FreshDefault(k, day) ==
    CASE k = "facility_display_name"    -> "Pharmacy chains"
      [] k = "state_name"               -> IF day % 2 = 0 THEN "Georgia" ELSE "Texas"
      [] k = "poverty_threshold"        -> DEFAULT_POVERTY_THRESHOLD
      [] k = "urban_distance_threshold" -> DEFAULT_URBAN_DISTANCE_THRESHOLD
      [] k = "rural_distance_threshold" -> DEFAULT_RURAL_DISTANCE_THRESHOLD

\* C8 as stated: after a run, every mirrored key is in the store, holding the
\* default the run computed for it.
C8_FirstReadSeedsStore ==
    ui = "rendered"
        => \A k \in MirroredKeys : session_state[k].present

\* C8 as amended: a run writes no mirrored key.  The store holds a key only
\* once the user has changed its widget; until then every run computes the
\* default anew (for the state, from the day of the run) and gives it to the
\* widget, and the first run uses it.
C8_StoreFilledOnlyByChange ==
    \A k \in MirroredKeys :
        /\ session_state[k].present <=> chosen[k].present
        /\ (ui = "rendered" /\ ~session_state[k].present)
              => /\ defaults[k] = Some(FreshDefault(k, day_of_year))
                 /\ (k # "state_name" \/ widget_identity = "parameters")
                       => locals[k] = defaults[k]
        /\ (ui = "rendered" /\ session_state[k].present)
              => defaults[k] = session_state[k]

\* nothing is persisted after a run on a later day than the first, whose
\* default state is another than the state the widget still shows
C8_Witness ==
    /\ ui = "rendered"
    /\ \A k \in MirroredKeys : ~session_state[k].present
    /\ day_of_year > 1
    /\ locals["state_name"] # defaults["state_name"]

\* C9 as stated: a mirrored key and a toggle change only when the user
\* changes their own widget, and neither is ever removed.
C9_OnlyOwnWidgetChangesField ==
    [][ /\ \A k \in MirroredKeys :
              /\ session_state'[k] # session_state[k]
                    => \E v \in Options(k) : ChangeWidget(k, v)
              /\ session_state[k].present => session_state'[k].present
        /\ \A t \in Toggles :
              locals[t].present
                 => /\ locals'[t].present
                    /\ locals'[t] # locals[t] => FlipToggle(t) ]_vars

\* C9 as amended: a mirrored key changes only when the user changes its own
\* widget, whose callback writes that key alone, and is never removed.  A
\* toggle is not persisted: it changes when the user flips it, and goes back
\* to its default when the page is entered again and, for the two toggles
\* whose label names the facility, when the facility is changed.
C9_MirroredKeysChangeOnlyByOwnWidget ==
    [][ /\ \A k \in MirroredKeys :
              /\ session_state'[k] # session_state[k]
                    => /\ \E v \in Options(k) :
                             ChangeWidget(k, v) /\ session_state'[k] = Some(v)
                       /\ \A j \in MirroredKeys \ {k} : session_state'[j] = session_state[j]
              /\ session_state[k].present => session_state'[k].present
        /\ \A t \in Toggles :
              (locals[t].present /\ locals'[t] # locals[t])
                 => \/ FlipToggle(t)
                    \/ /\ locals'[t] = Some(ToggleDefault(t))
                       /\ \/ ReturnToPage
                          \/ /\ t \in {"show_deserts", "show_facility_locations"}
                             /\ \E v \in Options("facility_display_name") :
                                   ChangeWidget("facility_display_name", v) ]_vars

\* the poverty threshold alone has been changed, and two toggles flipped
C9_Witness ==
    /\ ui = "rendered"
    /\ session_state["poverty_threshold"] = Some(MaxPovertyThreshold)
    /\ \A k \in MirroredKeys \ {"poverty_threshold"} : ~session_state[k].present
    /\ locals["show_voronoi_cells"] = Some(TRUE)
    /\ locals["show_deserts"] = Some(FALSE)

====
